---- MODULE Spec2Model ----
(***************************************************************************)
(* Model of the Bajaj Trading SDK backend: the in-memory store, the order  *)
(* lifecycle (placeOrder, cancelOrder, attemptOrderExecution,              *)
(* processPendingOrders, modifyOrder), trade recording and the portfolio   *)
(* ledger.  Prices are integers in paise (1/100 rupee), the precision the  *)
(* code rounds to.                                                         *)
(***************************************************************************)
EXTENDS Integers, Naturals, Sequences, FiniteSets, TLC

\* ------------------------------------------------------------------ bounds
MaxOrders == 2          \* entries ever created in memoryStore.orders

\* --------------------------------------------------------------- constants
InitialPrice == 245075  \* lastTradedPrice of RELIANCE at start-up (2450.75)

Users == {"user_001", "user_002"}   \* callers of the order service
\* the processPendingOrders calls that can be in progress at the same time
Sweepers == {1, 2}
Owners == {"user_001"}              \* config.mockUser, the user of every request
Symbols == {"RELIANCE"}
UnknownSymbol == "NOSUCH"
\* the prices updatePrice sets
Prices == {InitialPrice - 1000, InitialPrice, InitialPrice + 1000}
\* the limit prices placeOrder requests ask for
LimitPrices == {InitialPrice}
\* the prices modifyOrder requests ask for
ModifyPrices == {InitialPrice + 1000}
\* the quantities requests ask for
Quantities == {1, 2}

ORDER_STATUSES == {"NEW", "PLACED", "EXECUTED", "CANCELLED"}
ORDER_STYLES == {"MARKET", "LIMIT"}
ORDER_TYPES == {"BUY", "SELL"}

VARIABLES
  orders,      \* memoryStore.orders: Map key -> order, in insertion order
  trades,      \* memoryStore.trades: the trades, in insertion order
  portfolio,   \* memoryStore.portfolio: <<userId, symbol>> -> holding
  price,       \* memoryStore.instruments: symbol -> lastTradedPrice
  pc,          \* position of the request being handled: "idle" or "modify"
  req,         \* newOrderData of the modifyOrder request in progress
  sweep        \* per processPendingOrders call in progress: its loop state

vars == <<orders, trades, portfolio, price, pc, req, sweep>>

\* ------------------------------------------------------------- arithmetic
RECURSIVE GCD(_, _)
GCD(a, b) == IF b = 0 THEN a ELSE GCD(b, a % b)

\* the exact quotient n / d of a JavaScript division, as a reduced fraction
Quotient(n, d) ==
  LET g == GCD(n, d) IN [num |-> n \div g, den |-> d \div g]

Zero == [num |-> 0, den |-> 1]

\* ------------------------------------------------------------------ helpers
\* canExecuteLimitOrder with a strict comparison for BUY
canExecuteLimitOrderBuyStrict(order, currentMarketPrice) ==
  IF order.orderStyle # "LIMIT" THEN TRUE
  ELSE IF order.orderType = "BUY" THEN currentMarketPrice < order.price
  ELSE currentMarketPrice >= order.price

\* canExecuteLimitOrder with the SELL comparison turned round
canExecuteLimitOrderSellBelow(order, currentMarketPrice) ==
  IF order.orderStyle # "LIMIT" THEN TRUE
  ELSE IF order.orderType = "BUY" THEN currentMarketPrice <= order.price
  ELSE currentMarketPrice <= order.price

\* canExecuteLimitOrder with a strict comparison for SELL
canExecuteLimitOrderSellStrict(order, currentMarketPrice) ==
  IF order.orderStyle # "LIMIT" THEN TRUE
  ELSE IF order.orderType = "BUY" THEN currentMarketPrice <= order.price
  ELSE currentMarketPrice > order.price

\* helpers.js canExecuteLimitOrder
canExecuteLimitOrder(order, currentMarketPrice) ==
  IF order.orderStyle # "LIMIT" THEN TRUE
  ELSE IF order.orderType = "BUY" THEN currentMarketPrice <= order.price
  ELSE currentMarketPrice >= order.price

\* the largest Math.round(p * (1 + slippage)) for slippage in [-0.001, 0.001)
MarketPriceMax(p) == (2002 * p + 999) \div 2000

\* calculateExecutionPrice with a LIMIT order filled at the market price
calculateExecutionPriceAtMarket(order, currentMarketPrice) ==
  IF order.orderStyle = "MARKET"
  THEN {currentMarketPrice, MarketPriceMax(currentMarketPrice)}
  ELSE {currentMarketPrice}

\* helpers.js calculateExecutionPrice: the prices Math.random() can produce,
\* sampled at no slippage and at the upper end of the slippage range
calculateExecutionPrice(order, currentMarketPrice) ==
  IF order.orderStyle = "MARKET"
  THEN {currentMarketPrice, MarketPriceMax(currentMarketPrice)}
  ELSE {order.price}

\* ------------------------------------------------------------- memoryStore
\* the three maps an execution attempt mutates
Store(o, t, p) == [orders |-> o, trades |-> t, portfolio |-> p]

\* memoryStore.createOrder: a fresh uuid key; the spread of orderData comes
\* after id, so an id carried by orderData replaces the fresh one
createOrder(ords, orderData) ==
  LET orderId == Len(ords) + 1 IN
  Append(ords, [id |-> IF orderData.id # 0 THEN orderData.id ELSE orderId,
                userId |-> orderData.userId,
                symbol |-> orderData.symbol,
                orderType |-> orderData.orderType,
                orderStyle |-> orderData.orderStyle,
                quantity |-> orderData.quantity,
                price |-> orderData.price,
                status |-> orderData.status,
                executedPrice |-> orderData.executedPrice,
                executedQuantity |-> orderData.executedQuantity])

\* updateOrderStatus with executedQuantity written on every status change
updateOrderStatusStamped(ords, orderId, status, executedPrice, executedQuantity) ==
  IF orderId \in DOMAIN ords
  THEN [ords EXCEPT ![orderId] =
          [@ EXCEPT !.status = status,
                    !.executedPrice =
                       IF executedPrice # 0 THEN executedPrice ELSE @,
                    !.executedQuantity = ords[orderId].quantity]]
  ELSE ords

\* memoryStore.updateOrderStatus (executed fields are set only when truthy)
updateOrderStatus(ords, orderId, status, executedPrice, executedQuantity) ==
  IF orderId \in DOMAIN ords
  THEN [ords EXCEPT ![orderId] =
          [@ EXCEPT !.status = status,
                    !.executedPrice =
                       IF executedPrice # 0 THEN executedPrice ELSE @,
                    !.executedQuantity =
                       IF executedQuantity # 0 THEN executedQuantity ELSE @]]
  ELSE ords

\* createTrade with the requested price of the order as the trade price
createTradeRequestedPrice(trds, order, executionPrice) ==
  Append(trds, [userId |-> order.userId,
                orderId |-> order.id,
                symbol |-> order.symbol,
                orderType |-> order.orderType,
                quantity |-> order.quantity,
                price |-> order.price,
                totalAmount |-> order.quantity * order.price])

\* memoryStore.createTrade, with the totalAmount tradeService.createTrade adds
createTrade(trds, order, executionPrice) ==
  Append(trds, [userId |-> order.userId,
                orderId |-> order.id,
                symbol |-> order.symbol,
                orderType |-> order.orderType,
                quantity |-> order.quantity,
                price |-> executionPrice,
                totalAmount |-> order.quantity * executionPrice])

NewHolding == [quantity |-> 0, totalInvestment |-> 0, averagePrice |-> Zero]

Max(a, b) == IF a >= b THEN a ELSE b

\* updatePortfolio without the reset at quantity 0
updatePortfolioNoReset(pf, userId, symbol, quantity, prc, orderType) ==
  LET portfolioKey == <<userId, symbol>>
      holding == IF portfolioKey \in DOMAIN pf THEN pf[portfolioKey]
                 ELSE NewHolding
      updated ==
        IF orderType = "BUY"
        THEN LET totalInvestment == holding.totalInvestment + quantity * prc
                 totalQuantity == holding.quantity + quantity
             IN [quantity |-> totalQuantity,
                 totalInvestment |-> totalInvestment,
                 averagePrice |-> Quotient(totalInvestment, totalQuantity)]
        ELSE [holding EXCEPT !.quantity = Max(0, holding.quantity - quantity)]
  IN [k \in DOMAIN pf \cup {portfolioKey} |->
        IF k = portfolioKey THEN updated ELSE pf[k]]

\* updatePortfolio with the average recomputed after a partial SELL
updatePortfolioSellReaverages(pf, userId, symbol, quantity, prc, orderType) ==
  LET portfolioKey == <<userId, symbol>>
      holding == IF portfolioKey \in DOMAIN pf THEN pf[portfolioKey]
                 ELSE NewHolding
      updated ==
        IF orderType = "BUY"
        THEN LET totalInvestment == holding.totalInvestment + quantity * prc
                 totalQuantity == holding.quantity + quantity
             IN [quantity |-> totalQuantity,
                 totalInvestment |-> totalInvestment,
                 averagePrice |-> Quotient(totalInvestment, totalQuantity)]
        ELSE IF orderType = "SELL"
        THEN LET q == Max(0, holding.quantity - quantity)
             IN IF q = 0 THEN [quantity |-> 0, totalInvestment |-> 0,
                               averagePrice |-> Zero]
                ELSE [holding EXCEPT
                        !.quantity = q,
                        !.averagePrice = Quotient(holding.totalInvestment, q)]
        ELSE holding
  IN [k \in DOMAIN pf \cup {portfolioKey} |->
        IF k = portfolioKey THEN updated ELSE pf[k]]

\* updatePortfolio with the price of the last fill as the average of a BUY
updatePortfolioLastFillAverage(pf, userId, symbol, quantity, prc, orderType) ==
  LET portfolioKey == <<userId, symbol>>
      holding == IF portfolioKey \in DOMAIN pf THEN pf[portfolioKey]
                 ELSE NewHolding
      updated ==
        IF orderType = "BUY"
        THEN LET totalInvestment == holding.totalInvestment + quantity * prc
                 totalQuantity == holding.quantity + quantity
             IN [quantity |-> totalQuantity,
                 totalInvestment |-> totalInvestment,
                 averagePrice |-> Quotient(quantity * prc, quantity)]
        ELSE IF orderType = "SELL"
        THEN LET q == Max(0, holding.quantity - quantity)
             IN IF q = 0 THEN [quantity |-> 0, totalInvestment |-> 0,
                               averagePrice |-> Zero]
                ELSE [holding EXCEPT !.quantity = q]
        ELSE holding
  IN [k \in DOMAIN pf \cup {portfolioKey} |->
        IF k = portfolioKey THEN updated ELSE pf[k]]

\* memoryStore.updatePortfolio
updatePortfolio(pf, userId, symbol, quantity, prc, orderType) ==
  LET portfolioKey == <<userId, symbol>>
      holding == IF portfolioKey \in DOMAIN pf THEN pf[portfolioKey]
                 ELSE NewHolding
      updated ==
        IF orderType = "BUY"
        THEN LET totalInvestment == holding.totalInvestment + quantity * prc
                 totalQuantity == holding.quantity + quantity
             IN [quantity |-> totalQuantity,
                 totalInvestment |-> totalInvestment,
                 averagePrice |-> Quotient(totalInvestment, totalQuantity)]
        ELSE IF orderType = "SELL"
        THEN LET q == Max(0, holding.quantity - quantity)
             IN IF q = 0 THEN [quantity |-> 0, totalInvestment |-> 0,
                               averagePrice |-> Zero]
                ELSE [holding EXCEPT !.quantity = q]
        ELSE holding
  IN [k \in DOMAIN pf \cup {portfolioKey} |->
        IF k = portfolioKey THEN updated ELSE pf[k]]

\* memoryStore.getPortfolio / portfolioService.getHoldingBySymbol: the
\* holding when one with quantity > 0 exists, else none (quantity 0)
HeldQuantity(pf, userId, symbol) ==
  IF <<userId, symbol>> \in DOMAIN pf /\ pf[<<userId, symbol>>].quantity > 0
  THEN pf[<<userId, symbol>>].quantity
  ELSE 0

\* PortfolioUpdateFails with a SELL refused only when nothing is held
PortfolioUpdateFailsNoHolding(pf, userId, symbol, quantity, orderType) ==
  \/ symbol \notin Symbols
  \/ orderType = "SELL" /\ HeldQuantity(pf, userId, symbol) = 0

\* portfolioService.updatePortfolioAfterTrade throws on an unknown symbol
\* and on a SELL of more than is held
PortfolioUpdateFails(pf, userId, symbol, quantity, orderType) ==
  \/ symbol \notin Symbols
  \/ orderType = "SELL" /\ HeldQuantity(pf, userId, symbol) < quantity

\* ------------------------------------------------------------ orderService
\* isPlaced without the status check
isPlacedAnyStatus(ords, orderId) == orderId \in DOMAIN ords

\* attemptOrderExecution goes on only for a stored order that is PLACED
isPlaced(ords, orderId) ==
  orderId \in DOMAIN ords /\ ords[orderId].status = "PLACED"

\* attemptOrderExecution's decision: MARKET always, LIMIT by the helper
canExecute(order, currentPrice) ==
  IF order.orderStyle = "MARKET" THEN TRUE
  ELSE canExecuteLimitOrder(order, currentPrice)

\* attemptOrderExecution: the possible outcomes (one per execution price),
\* each the store afterwards and whether an executed order was returned
attemptOrderExecution(S, prices, orderId) ==
  IF ~ isPlaced(S.orders, orderId)
  THEN {[S |-> S, executed |-> FALSE]}
  ELSE
    LET order == S.orders[orderId] IN
    IF order.symbol \notin DOMAIN prices
    THEN {[S |-> S, executed |-> FALSE]}
    ELSE
      LET currentPrice == prices[order.symbol] IN
      IF ~ canExecute(order, currentPrice)
      THEN {[S |-> S, executed |-> FALSE]}
      ELSE
        { LET marked == updateOrderStatus(S.orders, orderId, "EXECUTED",
                                          executionPrice, order.quantity)
              recorded == createTrade(S.trades, order, executionPrice)
          IN IF PortfolioUpdateFails(S.portfolio, order.userId, order.symbol,
                                     order.quantity, order.orderType)
             THEN [S |-> Store(marked, recorded, S.portfolio),
                   executed |-> FALSE]
             ELSE [S |-> Store(marked, recorded,
                               updatePortfolio(S.portfolio, order.userId,
                                               order.symbol, order.quantity,
                                               executionPrice,
                                               order.orderType)),
                   executed |-> TRUE]
          : executionPrice \in calculateExecutionPrice(order, currentPrice) }

\* placeOrder without the immediate execution attempt
placeOrderNoAttempt(S, prices, orderData) ==
  LET created == createOrder(S.orders, [orderData EXCEPT !.status = "NEW"])
      order == created[Len(created)]
      placed == updateOrderStatus(created, order.id, "PLACED", 0, 0)
  IN {[S |-> Store(placed, S.trades, S.portfolio), executed |-> FALSE]}

\* placeOrder after its validation: createOrder, updateOrderStatus(PLACED)
\* on the id of the created order, then the immediate execution attempt
placeOrder(S, prices, orderData) ==
  LET created == createOrder(S.orders, [orderData EXCEPT !.status = "NEW"])
      order == created[Len(created)]
      placed == updateOrderStatus(created, order.id, "PLACED", 0, 0)
  IN attemptOrderExecution(Store(placed, S.trades, S.portfolio), prices,
                           order.id)

\* placeOrderError without the check of the LIMIT price
placeOrderErrorNoPriceCheck(orderData) ==
  IF orderData.symbol \notin Symbols THEN "InvalidSymbol" ELSE ""

\* the rejections of placeOrder: "" when the request is accepted
placeOrderError(orderData) ==
  IF orderData.symbol \notin Symbols THEN "InvalidSymbol"
  ELSE IF orderData.orderStyle = "LIMIT" /\ orderData.price <= 0
  THEN "MissingPrice"
  ELSE ""

\* sweepFrom with the loop left at the first attempt that executes nothing
RECURSIVE sweepFromStopsOnFailure(_, _, _, _, _)
sweepFromStopsOnFailure(S, prices, pendingOrders, i, executedOrders) ==
  IF i > Len(pendingOrders)
  THEN {[S |-> S, executedOrders |-> executedOrders]}
  ELSE UNION { IF out.executed
               THEN sweepFromStopsOnFailure(out.S, prices, pendingOrders, i + 1,
                                            Append(executedOrders,
                                                   pendingOrders[i]))
               ELSE {[S |-> out.S, executedOrders |-> executedOrders]}
               : out \in attemptOrderExecution(S, prices, pendingOrders[i]) }

\* processPendingOrders: the loop over the snapshot of PLACED orders, from
\* position i; each outcome is the store and the list of executed order ids
RECURSIVE sweepFrom(_, _, _, _, _)
sweepFrom(S, prices, pendingOrders, i, executedOrders) ==
  IF i > Len(pendingOrders)
  THEN {[S |-> S, executedOrders |-> executedOrders]}
  ELSE UNION { sweepFrom(out.S, prices, pendingOrders, i + 1,
                         IF out.executed
                         THEN Append(executedOrders, pendingOrders[i])
                         ELSE executedOrders)
               : out \in attemptOrderExecution(S, prices, pendingOrders[i]) }

\* the ids of the orders that are PLACED, in the order of the Map
RECURSIVE pendingIds(_, _)
pendingIds(ords, i) ==
  IF i > Len(ords) THEN <<>>
  ELSE IF ords[i].status = "PLACED"
       THEN <<ords[i].id>> \o pendingIds(ords, i + 1)
       ELSE pendingIds(ords, i + 1)

processPendingOrders(S, prices) ==
  sweepFrom(S, prices, pendingIds(S.orders, 1), 1, <<>>)

\* ------------------------------------------------------------------- state
NoData == [id |-> 0, userId |-> "", symbol |-> "", orderType |-> "",
           orderStyle |-> "", quantity |-> 0, price |-> 0, status |-> "",
           executedPrice |-> 0, executedQuantity |-> 0]

CurrentStore == Store(orders, trades, portfolio)

Commit(S) ==
  /\ orders' = S.orders
  /\ trades' = S.trades
  /\ portfolio' = S.portfolio

\* no processPendingOrders call in progress
NoSweep == [pc |-> "idle", pendingOrders |-> <<>>, i |-> 0]

Init ==
  /\ orders = <<>>
  /\ trades = <<>>
  /\ portfolio = <<>>
  /\ price = [s \in Symbols |-> InitialPrice]
  /\ pc = "idle"
  /\ req = NoData
  /\ sweep = [p \in Sweepers |-> NoSweep]

\* the validated body of POST /orders plus the authenticated user; a MARKET
\* request carries no price
OrderRequests ==
  { r \in { [NoData EXCEPT !.userId = u, !.symbol = s, !.orderType = t,
                           !.orderStyle = st, !.quantity = q, !.price = p]
            : u \in Owners, s \in Symbols \cup {UnknownSymbol},
              t \in ORDER_TYPES, st \in ORDER_STYLES, q \in Quantities,
              p \in LimitPrices \cup {0} }
    : r.orderStyle = "MARKET" => r.price = 0 }

\* the order ids a request can name: the id of a stored order (the key of
\* the Map is a uuid no response shows) or an id that names no order
OrderIds == {orders[k].id : k \in DOMAIN orders} \cup {Len(orders) + 1}

\* POST /orders: orderController.placeOrder -> orderService.placeOrder
PlaceOrder ==
  /\ pc = "idle"
  /\ Len(orders) < MaxOrders
  /\ \E orderData \in OrderRequests :
       IF placeOrderError(orderData) # ""
       THEN UNCHANGED <<orders, trades, portfolio>>
       ELSE \E out \in placeOrder(CurrentStore, price, orderData) :
              Commit(out.S)
  /\ UNCHANGED <<price, pc, req, sweep>>

\* cancelOrderError without the check for an order that is already CANCELLED
cancelOrderErrorNoCancelledCheck(ords, orderId, userId) ==
  IF orderId \notin DOMAIN ords THEN "NotFound"
  ELSE IF ords[orderId].userId # userId THEN "Forbidden"
  ELSE IF ords[orderId].status = "EXECUTED" THEN "AlreadyTerminal"
  ELSE ""

\* orderService.cancelOrder: "" when the order can be cancelled
cancelOrderError(ords, orderId, userId) ==
  IF orderId \notin DOMAIN ords THEN "NotFound"
  ELSE IF ords[orderId].userId # userId THEN "Forbidden"
  ELSE IF ords[orderId].status = "EXECUTED" THEN "AlreadyTerminal"
  ELSE IF ords[orderId].status = "CANCELLED" THEN "AlreadyTerminal"
  ELSE ""

cancelOrder(ords, orderId, userId) ==
  IF cancelOrderError(ords, orderId, userId) # "" THEN ords
  ELSE updateOrderStatus(ords, orderId, "CANCELLED", 0, 0)

\* PUT /orders/:orderId/cancel
CancelOrder ==
  /\ pc = "idle"
  /\ \E orderId \in OrderIds, userId \in Users :
       orders' = cancelOrder(orders, orderId, userId)
  /\ UNCHANGED <<trades, portfolio, price, pc, req, sweep>>

\* orderService.attemptOrderExecution called on its own
AttemptOrderExecution ==
  /\ pc = "idle"
  /\ \E orderId \in OrderIds :
       \E out \in attemptOrderExecution(CurrentStore, price, orderId) :
         Commit(out.S)
  /\ UNCHANGED <<price, pc, req, sweep>>

\* POST /orders/process-pending
ProcessPendingOrders ==
  /\ pc = "idle"
  /\ \E out \in processPendingOrders(CurrentStore, price) : Commit(out.S)
  /\ UNCHANGED <<price, pc, req, sweep>>

\* PUT /instruments/:symbol/price: instrumentService.updatePrice
UpdatePrice ==
  /\ pc = "idle"
  /\ \E symbol \in Symbols, newPrice \in Prices :
       price' = [price EXCEPT ![symbol] = newPrice]
  /\ UNCHANGED <<orders, trades, portfolio, pc, req, sweep>>

\* helpers.js generatePriceVariation(basePrice, 1): the price levels of the
\* model within 1% of basePrice
generatePriceVariation(basePrice) ==
  {p \in Prices : /\ 100 * (p - basePrice) <= basePrice
                  /\ 100 * (basePrice - p) <= basePrice}

\* GET /instruments: instrumentService.getAllInstruments, which rewrites the
\* price of an instrument by a random variation (here of one instrument)
GetAllInstruments ==
  /\ pc = "idle"
  /\ \E symbol \in Symbols :
       \E newPrice \in generatePriceVariation(price[symbol]) :
         price' = [price EXCEPT ![symbol] = newPrice]
  /\ UNCHANGED <<orders, trades, portfolio, pc, req, sweep>>

\* orderController.modifyOrder: "" when the order can be modified
modifyOrderError(ords, orderId, userId) ==
  IF orderId \notin DOMAIN ords THEN "NotFound"
  ELSE IF ords[orderId].userId # userId THEN "Forbidden"
  ELSE IF ords[orderId].status # "PLACED" THEN "NotPending"
  ELSE ""

\* newOrderData of modifyOrder: the spread of existingOrder, the stored
\* object, read after cancelOrder has changed it
newOrderData(existingOrder, newPrice, newQuantity, userId) ==
  [existingOrder EXCEPT
     !.price = IF newPrice # 0 THEN newPrice ELSE @,
     !.quantity = IF newQuantity # 0 THEN newQuantity ELSE @,
     !.userId = userId]

\* PUT /orders/:orderId, up to and including the cancelOrder call.  The
\* handler runs on to its placeOrder call with no await in between: pc keeps
\* every other request out until ModifyOrderPlace has run.
ModifyOrderCancel ==
  /\ pc = "idle"
  /\ Len(orders) < MaxOrders
  /\ \E orderId \in OrderIds, userId \in Users :
       IF modifyOrderError(orders, orderId, userId) # ""
       THEN UNCHANGED <<orders, pc, req>>
       ELSE \E newPrice \in ModifyPrices \cup {0},
               newQuantity \in Quantities \cup {0} :
              /\ orders' = cancelOrder(orders, orderId, userId)
              /\ req' = newOrderData(orders'[orderId], newPrice, newQuantity,
                                     userId)
              /\ pc' = "modify"
  /\ UNCHANGED <<trades, portfolio, price, sweep>>

\* PUT /orders/:orderId, the placeOrder(newOrderData) call and the response
ModifyOrderPlace ==
  /\ pc = "modify"
  /\ IF placeOrderError(req) # ""
     THEN UNCHANGED <<orders, trades, portfolio>>
     ELSE \E out \in placeOrder(CurrentStore, price, req) : Commit(out.S)
  /\ pc' = "idle"
  /\ req' = NoData
  /\ UNCHANGED <<price, sweep>>

Next ==
  \/ PlaceOrder
  \/ CancelOrder
  \/ AttemptOrderExecution
  \/ ProcessPendingOrders
  \/ UpdatePrice
  \/ GetAllInstruments
  \/ ModifyOrderCancel
  \/ ModifyOrderPlace

Spec == Init /\ [][Next]_vars

TypeOK ==
  /\ pc \in {"idle", "modify"}
  /\ Len(orders) <= MaxOrders
  /\ \A k \in DOMAIN orders : orders[k].status \in ORDER_STATUSES

\* ------------------------------------------------- interleaved requests
\* One iteration of the loop of processPendingOrders for call p: the
\* synchronous part of attemptOrderExecution on pendingOrders[i], which runs
\* from the status check to the portfolio update without an await.  The
\* call then waits at the await of the loop, where other requests can run.
\* The list the call returns is local to it and is not kept; after its last
\* iteration the call only returns, so it is over for the store.
sweepIteration(p, pendingOrders, i) ==
  \E out \in attemptOrderExecution(CurrentStore, price, pendingOrders[i]) :
    /\ Commit(out.S)
    /\ sweep' = [sweep EXCEPT ![p] =
                   IF i = Len(pendingOrders) THEN NoSweep
                   ELSE [pc |-> "loop", pendingOrders |-> pendingOrders,
                         i |-> i + 1]]

\* processPendingOrders, from the call to its first await: the snapshot of
\* the PLACED orders and the first iteration; with nothing pending the call
\* returns at once.  The calls are alike: a new one takes the first free p.
ProcessPendingOrdersStart(p) ==
  /\ pc = "idle"
  /\ sweep[p].pc = "idle"
  /\ \A q \in Sweepers : q < p => sweep[q].pc # "idle"
  /\ LET pendingOrders == pendingIds(orders, 1) IN
     IF pendingOrders = <<>>
     THEN UNCHANGED <<orders, trades, portfolio, sweep>>
     ELSE sweepIteration(p, pendingOrders, 1)
  /\ UNCHANGED <<price, pc, req>>

\* processPendingOrders, resumed at the await of its loop: the next
\* iteration
ProcessPendingOrdersResume(p) ==
  /\ pc = "idle"
  /\ sweep[p].pc = "loop"
  /\ sweepIteration(p, sweep[p].pendingOrders, sweep[p].i)
  /\ UNCHANGED <<price, pc, req>>

SweepStart == \E p \in Sweepers : ProcessPendingOrdersStart(p)

SweepResume == \E p \in Sweepers : ProcessPendingOrdersResume(p)

\* placeOrder, cancelOrder and updatePrice run between the awaits of the
\* processPendingOrders calls in progress
NextInterleaved ==
  \/ PlaceOrder
  \/ CancelOrder
  \/ UpdatePrice
  \/ SweepStart
  \/ SweepResume

SpecInterleaved == Init /\ [][NextInterleaved]_vars

\* ------------------------------------------------------------------ claims
\* quantity of the stored holding, 0 when none is stored
StoredQuantity(u, s) ==
  IF <<u, s>> \in DOMAIN portfolio THEN portfolio[<<u, s>>].quantity ELSE 0

\* executed BUY quantity minus executed SELL quantity of user u on symbol s,
\* over the stored orders from position i on
RECURSIVE NetExecuted(_, _, _, _)
NetExecuted(ords, i, u, s) ==
  IF i > Len(ords) THEN 0
  ELSE (IF /\ ords[i].status = "EXECUTED"
           /\ ords[i].userId = u
           /\ ords[i].symbol = s
        THEN IF ords[i].orderType = "BUY" THEN ords[i].executedQuantity
             ELSE 0 - ords[i].executedQuantity
        ELSE 0) + NetExecuted(ords, i + 1, u, s)

\* the trades recorded for order id
TradesOf(trds, id) == {i \in DOMAIN trds : trds[i].orderId = id}

\* C1: execution is all-or-nothing: an order is EXECUTED only if its fill
\* was applied to the holding, so every holding equals the executed BUY
\* quantity minus the executed SELL quantity; and an attempt whose
\* portfolio update fails leaves the order PLACED, without executed fields
\* and without a trade.
C1_AllOrNothing ==
  /\ \A u \in Users, s \in Symbols :
       StoredQuantity(u, s) = NetExecuted(orders, 1, u, s)
  /\ \A k \in DOMAIN orders :
       LET o == orders[k] IN
       ( /\ isPlaced(orders, k)
         /\ canExecute(o, price[o.symbol])
         /\ PortfolioUpdateFails(portfolio, o.userId, o.symbol, o.quantity,
                                 o.orderType) )
       => \A out \in attemptOrderExecution(CurrentStore, price, k) :
            /\ out.S.orders[k].status = "PLACED"
            /\ out.S.orders[k].executedPrice = 0
            /\ out.S.orders[k].executedQuantity = 0
            /\ out.S.trades = trades

\* C2: EXECUTED and CANCELLED are terminal; the only status changes of a
\* stored order are NEW->PLACED, PLACED->EXECUTED and PLACED->CANCELLED.
C2_TerminalStatuses ==
  [][\A k \in DOMAIN orders :
       \/ orders'[k].status = orders[k].status
       \/ <<orders[k].status, orders'[k].status>> \in
            {<<"NEW", "PLACED">>, <<"PLACED", "EXECUTED">>,
             <<"PLACED", "CANCELLED">>}]_vars

\* C3: no short selling: a step that records one trade, a SELL, starts from
\* a holding of at least the sold quantity.
C3_NoShortSelling ==
  [][\A i \in DOMAIN trades' :
       ( /\ Len(trades') = Len(trades) + 1
         /\ i = Len(trades')
         /\ trades'[i].orderType = "SELL" )
       => HeldQuantity(portfolio, trades'[i].userId, trades'[i].symbol)
            >= trades'[i].quantity]_vars

\* C4: every stored holding has quantity >= 0, and a holding of quantity 0
\* has averagePrice 0 and totalInvestment 0.
C4_PortfolioInvariant ==
  \A key \in DOMAIN portfolio :
    /\ portfolio[key].quantity >= 0
    /\ portfolio[key].quantity = 0 =>
         /\ portfolio[key].averagePrice = Zero
         /\ portfolio[key].totalInvestment = 0

\* a holding was bought and then sold completely
C4_Witness ==
  \E key \in DOMAIN portfolio :
    /\ portfolio[key].quantity = 0
    /\ \E i, j \in DOMAIN trades :
         /\ i < j
         /\ trades[i].orderType = "BUY"
         /\ trades[j].orderType = "SELL"
         /\ trades[j].quantity >= 2

\* C5: the number of trades recorded under a stored order's id is 1 when the
\* order is EXECUTED and 0 otherwise.
C5_OneTradePerExecutedOrder ==
  \A k \in DOMAIN orders :
    Cardinality(TradesOf(trades, orders[k].id)) =
      IF orders[k].status = "EXECUTED" THEN 1 ELSE 0

\* the accepted requests of one kind
RequestsOf(orderType, orderStyle) ==
  {r \in OrderRequests : /\ r.orderType = orderType
                         /\ r.orderStyle = orderStyle
                         /\ placeOrderError(r) = ""}

\* C6: placeOrder of a MARKET BUY on an existing symbol returns the order
\* EXECUTED in the same call, whatever the price and the holdings are.
C6_MarketBuyExecutes ==
  \A r \in RequestsOf("BUY", "MARKET") :
    \A out \in placeOrder(CurrentStore, price, r) :
      /\ out.executed
      /\ out.S.orders[Len(orders) + 1].status = "EXECUTED"

\* a MARKET BUY was placed on top of an existing holding, after a price change
C6_Witness ==
  /\ Len(orders) = 2
  /\ orders[2].orderStyle = "MARKET"
  /\ orders[2].orderType = "BUY"
  /\ orders[2].status = "EXECUTED"
  /\ orders[1].status = "EXECUTED"
  /\ orders[1].orderType = "BUY"
  /\ orders[2].executedPrice > InitialPrice + 1000

\* C7: placeOrder of a LIMIT BUY below the current price leaves it PLACED,
\* with no trade and no holding change; an execution attempt or a sweep made
\* when the price is <= the limit price moves it to EXECUTED.
C7_LimitBuy ==
  /\ \A r \in RequestsOf("BUY", "LIMIT") :
       r.price < price[r.symbol] =>
         \A out \in placeOrder(CurrentStore, price, r) :
           /\ ~ out.executed
           /\ out.S.orders[Len(orders) + 1].status = "PLACED"
           /\ out.S.trades = trades
           /\ out.S.portfolio = portfolio
  /\ \A k \in DOMAIN orders :
       LET o == orders[k] IN
       ( /\ o.status = "PLACED"
         /\ o.orderStyle = "LIMIT"
         /\ o.orderType = "BUY"
         /\ price[o.symbol] <= o.price )
       => /\ \A out \in attemptOrderExecution(CurrentStore, price, k) :
               out.S.orders[k].status = "EXECUTED"
          /\ \A out \in processPendingOrders(CurrentStore, price) :
               out.S.orders[k].status = "EXECUTED"

\* a LIMIT BUY is pending and the price has come down to its limit
C7_Witness ==
  \E k \in DOMAIN orders :
    /\ orders[k].status = "PLACED"
    /\ orders[k].orderStyle = "LIMIT"
    /\ orders[k].orderType = "BUY"
    /\ price[orders[k].symbol] <= orders[k].price

\* placeOrder of a LIMIT SELL above the current price leaves it PLACED
LimitSellStaysPlaced ==
  \A r \in RequestsOf("SELL", "LIMIT") :
    r.price > price[r.symbol] =>
      \A out \in placeOrder(CurrentStore, price, r) :
        /\ ~ out.executed
        /\ out.S.orders[Len(orders) + 1].status = "PLACED"
        /\ out.S.trades = trades
        /\ out.S.portfolio = portfolio

\* order k is a pending LIMIT SELL and the price is >= its limit
SellLimitReached(k) ==
  /\ orders[k].status = "PLACED"
  /\ orders[k].orderStyle = "LIMIT"
  /\ orders[k].orderType = "SELL"
  /\ price[orders[k].symbol] >= orders[k].price

\* the attempt on order k executes it: EXECUTED, one more trade, and the
\* holding reduced by the order quantity
SellExecutes(k) ==
  LET o == orders[k] IN
  \A out \in attemptOrderExecution(CurrentStore, price, k) :
    /\ out.executed
    /\ out.S.orders[k].status = "EXECUTED"
    /\ Len(out.S.trades) = Len(trades) + 1
    /\ out.S.trades[Len(trades) + 1].orderId = o.id
    /\ <<o.userId, o.symbol>> \in DOMAIN out.S.portfolio
    /\ out.S.portfolio[<<o.userId, o.symbol>>].quantity =
         StoredQuantity(o.userId, o.symbol) - o.quantity

\* C8 as stated: a LIMIT SELL above the current price stays PLACED at
\* placement, and an attempt made once the price is >= the limit executes it
\* (order EXECUTED, trade recorded, holding reduced by the order quantity).
C8_LimitSell_Original ==
  /\ LimitSellStaysPlaced
  /\ \A k \in DOMAIN orders : SellLimitReached(k) => SellExecutes(k)

\* C8 as amended: the same, for an attempt made while the user holds at
\* least the order quantity of the symbol.
C8_LimitSell ==
  /\ LimitSellStaysPlaced
  /\ \A k \in DOMAIN orders :
       ( /\ SellLimitReached(k)
         /\ HeldQuantity(portfolio, orders[k].userId, orders[k].symbol)
              >= orders[k].quantity )
       => SellExecutes(k)

\* a LIMIT SELL is pending, the price has reached its limit and the holding
\* covers it
C8_Witness ==
  \E k \in DOMAIN orders :
    /\ SellLimitReached(k)
    /\ HeldQuantity(portfolio, orders[k].userId, orders[k].symbol)
         >= orders[k].quantity

\* C9: attemptOrderExecution on an absent order or on an order that is not
\* PLACED returns nothing executed and leaves orders, trades and holdings
\* unchanged (prices are never written by it).
C9_AttemptNoOp ==
  \A k \in 1..(Len(orders) + 1) :
    (k \notin DOMAIN orders \/ orders[k].status # "PLACED")
    => attemptOrderExecution(CurrentStore, price, k)
         = {[S |-> CurrentStore, executed |-> FALSE]}

\* an EXECUTED and a CANCELLED order are stored, both executable by price
C9_Witness ==
  \E j, k \in DOMAIN orders :
    /\ orders[j].status = "EXECUTED"
    /\ orders[k].status = "CANCELLED"
    /\ canExecute(orders[k], price[orders[k].symbol])

\* C10: cancelling a PLACED order moves it to CANCELLED, and from then on no
\* operation re-places, attempts or executes it: the order never changes
\* again and no trade is recorded for it.
C10_CancelledStaysCancelled ==
  /\ [](\A k \in DOMAIN orders :
          orders[k].status = "PLACED" =>
            cancelOrder(orders, k, orders[k].userId)[k].status = "CANCELLED")
  /\ [][\A k \in DOMAIN orders :
          orders[k].status = "CANCELLED" =>
            /\ orders'[k] = orders[k]
            /\ TradesOf(trades', orders[k].id) = TradesOf(trades, orders[k].id)
       ]_vars

C12_PlaceOrderRejections ==
  /\ [](\A r \in OrderRequests :
          /\ r.symbol \notin Symbols => placeOrderError(r) = "InvalidSymbol"
          /\ (r.symbol \in Symbols /\ r.orderStyle = "LIMIT" /\ r.price <= 0)
               => placeOrderError(r) = "MissingPrice")
  /\ [][orders' # orders =>
          \/ Len(orders') = Len(orders)
          \/ /\ Len(orders') = Len(orders) + 1
             /\ orders'[Len(orders')].symbol \in Symbols
             /\ orders'[Len(orders')].orderStyle = "LIMIT"
                  => orders'[Len(orders')].price > 0]_vars

\* orders, trades and a holding exist and placeOrder can still be called
\* with a request of each rejected kind
C12_Witness ==
  /\ pc = "idle"
  /\ Len(orders) = 1
  /\ Len(trades) = 1
  /\ HeldQuantity(portfolio, "user_001", "RELIANCE") > 0
  /\ \E r \in OrderRequests : placeOrderError(r) = "InvalidSymbol"
  /\ \E r \in OrderRequests : placeOrderError(r) = "MissingPrice"

\* the stored holding of u on s, a new holding when none is stored
HoldingOf(pf, u, s) ==
  IF <<u, s>> \in DOMAIN pf THEN pf[<<u, s>>] ELSE NewHolding

\* the prices an order can be filled at
FillPrices == Prices \cup LimitPrices \cup ModifyPrices
              \cup {MarketPriceMax(p) : p \in Prices}

\* holding h is holding (Q, C) after a BUY fill of q at p
IsBuyResult(h, Q, C, q, p) ==
  /\ h.quantity = Q + q
  /\ h.totalInvestment = C + q * p
  /\ h.averagePrice.den > 0
  /\ h.averagePrice.num * (Q + q) = (C + q * p) * h.averagePrice.den

\* C13: a BUY fill of quantity q at price p turns a holding (Q, C) into
\* (Q+q, C+q*p) with averagePrice (C+q*p)/(Q+q): for the portfolio update on
\* every reachable holding, for every step that records one trade, a BUY,
\* and for BUY 10 @ 100 then BUY 10 @ 120 from an empty holding (quantity 20,
\* averagePrice 110).
C13_WeightedAverage ==
  /\ [](\A u \in Owners, s \in Symbols, q \in Quantities, p \in FillPrices :
          LET h == HoldingOf(portfolio, u, s) IN
          IsBuyResult(updatePortfolio(portfolio, u, s, q, p, "BUY")[<<u, s>>],
                      h.quantity, h.totalInvestment, q, p))
  /\ [](LET first == updatePortfolio(<<>>, "user_001", "RELIANCE", 10, 10000,
                                     "BUY")
            second == updatePortfolio(first, "user_001", "RELIANCE", 10,
                                      12000, "BUY")
        IN second[<<"user_001", "RELIANCE">>] =
             [quantity |-> 20, totalInvestment |-> 220000,
              averagePrice |-> [num |-> 11000, den |-> 1]])
  /\ [][( /\ Len(trades') = Len(trades) + 1
           /\ trades'[Len(trades')].orderType = "BUY" )
        => LET t == trades'[Len(trades')]
               h == HoldingOf(portfolio, t.userId, t.symbol)
           IN /\ <<t.userId, t.symbol>> \in DOMAIN portfolio'
              /\ IsBuyResult(portfolio'[<<t.userId, t.symbol>>], h.quantity,
                             h.totalInvestment, t.quantity, t.price)]_vars

\* two BUY fills of different quantities at different prices built a holding
C13_Witness ==
  /\ Len(trades) = 2
  /\ trades[1].orderType = "BUY"
  /\ trades[2].orderType = "BUY"
  /\ trades[1].price # trades[2].price
  /\ trades[1].quantity # trades[2].quantity
  /\ HoldingOf(portfolio, "user_001", "RELIANCE").quantity = 3
  /\ HoldingOf(portfolio, "user_001", "RELIANCE").averagePrice.den = 3

\* C14: every stored holding with quantity > 0 has
\* averagePrice = totalInvestment / quantity.
C14_AverageIsCostOverQuantity ==
  \A key \in DOMAIN portfolio :
    portfolio[key].quantity > 0 =>
      /\ portfolio[key].averagePrice.den > 0
      /\ portfolio[key].averagePrice.num * portfolio[key].quantity =
           portfolio[key].totalInvestment * portfolio[key].averagePrice.den

\* holding h is holding old after a SELL fill of q (old.quantity >= q)
IsSellResult(h, old, q) ==
  /\ h.quantity = old.quantity - q
  /\ h.quantity > 0 => h.averagePrice = old.averagePrice
  /\ h.quantity = 0 => (h.totalInvestment = 0 /\ h.averagePrice = Zero)

\* C15: a SELL fill of quantity q on a holding of quantity Q >= q leaves
\* quantity Q-q, with averagePrice unchanged when Q-q > 0 and with cost
\* basis and averagePrice 0 when Q-q = 0: for the portfolio update on every
\* reachable holding, and for every step that records one trade, a SELL the
\* holding covers.
C15_SellFillEffect ==
  /\ [](\A u \in Owners, s \in Symbols, q \in Quantities, p \in FillPrices :
          HoldingOf(portfolio, u, s).quantity >= q =>
            IsSellResult(updatePortfolio(portfolio, u, s, q, p, "SELL")[<<u, s>>],
                         HoldingOf(portfolio, u, s), q))
  /\ [][( /\ Len(trades') = Len(trades) + 1
           /\ trades'[Len(trades')].orderType = "SELL"
           /\ HeldQuantity(portfolio, trades'[Len(trades')].userId,
                           trades'[Len(trades')].symbol)
                >= trades'[Len(trades')].quantity )
        => LET t == trades'[Len(trades')] IN
           IsSellResult(portfolio'[<<t.userId, t.symbol>>],
                        portfolio[<<t.userId, t.symbol>>], t.quantity)]_vars

\* a holding of 2 was partly sold: quantity 1 at the average of the BUY
C15_Witness ==
  /\ Len(trades) = 2
  /\ trades[1].orderType = "BUY"
  /\ trades[1].quantity = 2
  /\ trades[2].orderType = "SELL"
  /\ trades[2].quantity = 1
  /\ HoldingOf(portfolio, "user_001", "RELIANCE").quantity = 1
  /\ HoldingOf(portfolio, "user_001", "RELIANCE").averagePrice =
       Quotient(trades[1].price, 1)

\* order k is PLACED, executable at the current price, and a SELL of more
\* than its user holds
UncoveredSell(k) ==
  /\ isPlaced(orders, k)
  /\ orders[k].orderType = "SELL"
  /\ canExecute(orders[k], price[orders[k].symbol])
  /\ HeldQuantity(portfolio, orders[k].userId, orders[k].symbol)
       < orders[k].quantity

\* C16: the portfolio update of a SELL of more than the user holds of the
\* symbol (nothing held included) fails and leaves every holding unchanged:
\* the update is refused for every such quantity, every execution attempt
\* on such an order leaves the portfolio as it was, and so does every step
\* that records one trade, a SELL the holding does not cover.
C16_InsufficientHoldings ==
  /\ [](\A u \in Owners, s \in Symbols, q \in Quantities :
          q > HeldQuantity(portfolio, u, s)
          => PortfolioUpdateFails(portfolio, u, s, q, "SELL"))
  /\ [](\A k \in DOMAIN orders :
          UncoveredSell(k) =>
            \A out \in attemptOrderExecution(CurrentStore, price, k) :
              out.S.portfolio = portfolio)
  /\ [][( /\ Len(trades') = Len(trades) + 1
           /\ trades'[Len(trades')].orderType = "SELL"
           /\ HeldQuantity(portfolio, trades'[Len(trades')].userId,
                           trades'[Len(trades')].symbol)
                < trades'[Len(trades')].quantity )
        => portfolio' = portfolio]_vars

\* a SELL of 2 was attempted on a holding of 1, which is still 1
C16_Witness ==
  /\ Len(trades) = 2
  /\ trades[1].orderType = "BUY"
  /\ trades[1].quantity = 1
  /\ trades[2].orderType = "SELL"
  /\ trades[2].quantity = 2
  /\ HoldingOf(portfolio, "user_001", "RELIANCE").quantity = 1

\* the reference table of executability
Executable(orderStyle, orderType, limitPrice, currentPrice) ==
  \/ orderStyle = "MARKET"
  \/ orderStyle = "LIMIT" /\ orderType = "BUY" /\ currentPrice <= limitPrice
  \/ orderStyle = "LIMIT" /\ orderType = "SELL" /\ currentPrice >= limitPrice

\* C17: the decision of attemptOrderExecution equals the reference table,
\* for every stored order at the current price and for every order style,
\* side, limit price and current price: MARKET always, LIMIT BUY iff
\* currentPrice <= limit, LIMIT SELL iff currentPrice >= limit.  An attempt
\* on a PLACED order the table refuses changes nothing, and one on an order
\* the table admits executes it when the portfolio update goes through.
C17_ExecutabilityTable ==
  /\ \A st \in ORDER_STYLES, t \in ORDER_TYPES, lp \in FillPrices,
        cp \in FillPrices :
       canExecute([NoData EXCEPT !.orderStyle = st, !.orderType = t,
                                 !.price = IF st = "LIMIT" THEN lp ELSE 0],
                  cp)
         <=> Executable(st, t, lp, cp)
  /\ \A k \in DOMAIN orders :
       LET o == orders[k] IN
       /\ canExecute(o, price[o.symbol])
            <=> Executable(o.orderStyle, o.orderType, o.price, price[o.symbol])
       /\ ( /\ isPlaced(orders, k)
            /\ ~ Executable(o.orderStyle, o.orderType, o.price,
                            price[o.symbol]) )
          => attemptOrderExecution(CurrentStore, price, k)
               = {[S |-> CurrentStore, executed |-> FALSE]}
       /\ ( /\ isPlaced(orders, k)
            /\ Executable(o.orderStyle, o.orderType, o.price, price[o.symbol])
            /\ ~ PortfolioUpdateFails(portfolio, o.userId, o.symbol,
                                      o.quantity, o.orderType) )
          => \A out \in attemptOrderExecution(CurrentStore, price, k) :
               out.executed /\ out.S.orders[k].status = "EXECUTED"

\* a LIMIT SELL and a LIMIT BUY are pending and the current price equals
\* the limit of both
C17_Witness ==
  \E j, k \in DOMAIN orders :
    /\ isPlaced(orders, j) /\ isPlaced(orders, k)
    /\ orders[j].orderStyle = "LIMIT" /\ orders[j].orderType = "SELL"
    /\ orders[k].orderStyle = "LIMIT" /\ orders[k].orderType = "BUY"
    /\ price[orders[j].symbol] = orders[j].price
    /\ price[orders[k].symbol] = orders[k].price

\* order k is a PLACED LIMIT order the current price lets execute
LimitReached(k) ==
  /\ isPlaced(orders, k)
  /\ orders[k].orderStyle = "LIMIT"
  /\ canExecute(orders[k], price[orders[k].symbol])

\* C18: an executed LIMIT order is filled at exactly its limit price: the
\* executedPrice of every EXECUTED LIMIT order and the price of its trades
\* equal order.price, and every execution attempt on a PLACED LIMIT order
\* writes order.price as executedPrice, as the price of the trade and, for
\* a BUY, as the price added to the cost basis of the holding, whatever the
\* current price is.
C18_LimitFillPrice ==
  /\ \A k \in DOMAIN orders :
       LET o == orders[k] IN
       (o.status = "EXECUTED" /\ o.orderStyle = "LIMIT")
       => /\ o.executedPrice = o.price
          /\ \A i \in TradesOf(trades, o.id) : trades[i].price = o.price
  /\ \A k \in DOMAIN orders :
       LET o == orders[k] IN
       LimitReached(k) =>
         \A out \in attemptOrderExecution(CurrentStore, price, k) :
           /\ out.S.orders[k].executedPrice = o.price
           /\ Len(out.S.trades) = Len(trades) + 1
           /\ out.S.trades[Len(trades) + 1].orderId = o.id
           /\ out.S.trades[Len(trades) + 1].price = o.price
           /\ o.orderType = "BUY" =>
                HoldingOf(out.S.portfolio, o.userId, o.symbol).totalInvestment
                  = HoldingOf(portfolio, o.userId, o.symbol).totalInvestment
                    + o.quantity * o.price

\* a LIMIT order has executed and a LIMIT BUY is pending while the current
\* price is strictly below its limit
C18_Witness ==
  \E j, k \in DOMAIN orders :
    /\ orders[j].status = "EXECUTED"
    /\ orders[j].orderStyle = "LIMIT"
    /\ LimitReached(k)
    /\ orders[k].orderType = "BUY"
    /\ price[orders[k].symbol] < orders[k].price

\* C19: every trade copies the order stored under its orderId: same userId,
\* symbol, side and quantity, price equal to the executedPrice of the order
\* and totalAmount = quantity x price; and no step changes or removes a
\* trade that exists.
C19_TradeCopiesOrder ==
  /\ [](\A i \in DOMAIN trades :
          LET t == trades[i] IN
          /\ t.orderId \in DOMAIN orders
          /\ orders[t.orderId].id = t.orderId
          /\ t.userId = orders[t.orderId].userId
          /\ t.symbol = orders[t.orderId].symbol
          /\ t.orderType = orders[t.orderId].orderType
          /\ t.quantity = orders[t.orderId].quantity
          /\ t.price = orders[t.orderId].executedPrice
          /\ t.totalAmount = t.quantity * t.price)
  /\ [][/\ Len(trades') >= Len(trades)
        /\ \A i \in DOMAIN trades : trades'[i] = trades[i]]_vars

\* two trades are recorded, the first a MARKET fill with slippage, the
\* second a SELL of another quantity
C19_Witness ==
  /\ Len(trades) = 2
  /\ trades[1].orderType = "BUY"
  /\ trades[1].price = MarketPriceMax(InitialPrice)
  /\ trades[2].orderType = "SELL"
  /\ trades[2].quantity # trades[1].quantity
  /\ trades[2].orderId # trades[1].orderId

\* C20: an order carries executedPrice or executedQuantity only when its
\* status is EXECUTED: orders in NEW, PLACED or CANCELLED have neither.
C20_ExecutedFieldsOnlyWhenExecuted ==
  \A k \in DOMAIN orders :
    orders[k].status # "EXECUTED" =>
      /\ orders[k].executedPrice = 0
      /\ orders[k].executedQuantity = 0

\* modifyOrder has run on an order that then executed: the order carries
\* its executed fields and the entry created from its spread is NEW
C20_Witness ==
  \E j, k \in DOMAIN orders :
    /\ j # k
    /\ orders[j].id = orders[k].id
    /\ orders[j].status = "EXECUTED"
    /\ orders[j].executedPrice > 0
    /\ orders[j].executedQuantity > 0
    /\ orders[k].status = "NEW"

\* C21: no partial fills: every EXECUTED order has executedQuantity equal to
\* its quantity, and a step that executes one order changes the holding of
\* its user on its symbol by exactly that quantity, up for a BUY and down
\* for a SELL.
C21_NoPartialFills ==
  /\ [](\A k \in DOMAIN orders :
          orders[k].status = "EXECUTED" =>
            orders[k].executedQuantity = orders[k].quantity)
  /\ [][\A k \in DOMAIN orders :
          ( /\ orders[k].status # "EXECUTED"
            /\ orders'[k].status = "EXECUTED"
            /\ Len(trades') = Len(trades) + 1 )
          => LET o == orders[k] IN
             HoldingOf(portfolio', o.userId, o.symbol).quantity =
               HoldingOf(portfolio, o.userId, o.symbol).quantity
               + (IF o.orderType = "BUY" THEN o.quantity ELSE 0 - o.quantity)
       ]_vars

\* the elements of a sequence
Range(seq) == {seq[i] : i \in DOMAIN seq}

\* C22: processPendingOrders attempts every order that is PLACED when the
\* sweep starts, and the list it returns is exactly the set of the orders
\* the sweep moved from PLACED to EXECUTED.
C22_SweepReturnsExecuted ==
  \A out \in processPendingOrders(CurrentStore, price) :
    /\ \A k \in DOMAIN orders :
         (orders[k].status = "PLACED" /\ canExecute(orders[k], price[orders[k].symbol]))
         => out.S.orders[k].status = "EXECUTED"
    /\ Range(out.executedOrders) =
         {orders[k].id : k \in {j \in DOMAIN orders :
                                 /\ orders[j].status = "PLACED"
                                 /\ out.S.orders[j].status = "EXECUTED"}}

\* order k is pending behind at least one pending order, and every pending
\* order before it is a SELL whose portfolio update fails
BehindFailingSells(k) ==
  /\ isPlaced(orders, k)
  /\ \E j \in 1..(k - 1) : UncoveredSell(j)
  /\ \A j \in 1..(k - 1) : isPlaced(orders, j) => UncoveredSell(j)

\* order k passes the price condition and its portfolio update goes through
OwnConditionHolds(k) ==
  /\ canExecute(orders[k], price[orders[k].symbol])
  /\ ~ PortfolioUpdateFails(portfolio, orders[k].userId, orders[k].symbol,
                            orders[k].quantity, orders[k].orderType)

\* C23: a sweep is best-effort: processPendingOrders always returns, and a
\* pending order that comes after pending SELL orders whose portfolio update
\* fails is still attempted: when its own condition holds it is EXECUTED, is
\* in the returned list and has its trade, and when its price condition
\* does not hold it is left PLACED.
C23_SweepBestEffort ==
  /\ processPendingOrders(CurrentStore, price) # {}
  /\ \A k \in DOMAIN orders :
       BehindFailingSells(k) =>
         \A out \in processPendingOrders(CurrentStore, price) :
           /\ OwnConditionHolds(k) =>
                /\ out.S.orders[k].status = "EXECUTED"
                /\ orders[k].id \in Range(out.executedOrders)
                /\ \E i \in DOMAIN out.S.trades :
                     /\ i > Len(trades)
                     /\ out.S.trades[i].orderId = orders[k].id
           /\ ~ canExecute(orders[k], price[orders[k].symbol]) =>
                out.S.orders[k] = orders[k]

\* a SELL the holding does not cover is pending with its limit reached, and
\* behind it a BUY is pending with its limit reached
C23_Witness ==
  \E k \in DOMAIN orders :
    /\ BehindFailingSells(k)
    /\ OwnConditionHolds(k)
    /\ orders[k].orderType = "BUY"

\* C24: a failed execution attempt leaves the order retryable: no step that
\* records at most one trade moves a PLACED SELL order to EXECUTED while the
\* holding does not cover it, so the order is still PLACED after the
\* failure; and an attempt made once its own condition holds executes it.
C24_Retryable ==
  /\ [][\A k \in DOMAIN orders :
          (UncoveredSell(k) /\ Len(trades') <= Len(trades) + 1)
          => orders'[k].status \in {"PLACED", "CANCELLED"}]_vars
  /\ [](\A k \in DOMAIN orders :
          (isPlaced(orders, k) /\ OwnConditionHolds(k)) =>
            \A out \in attemptOrderExecution(CurrentStore, price, k) :
              out.executed /\ out.S.orders[k].status = "EXECUTED")

\* C25: once it is stored as PLACED, an order is executed only by a sweep
\* (or an execution attempt made for it): no step of placeOrder, cancelOrder,
\* updatePrice, getAllInstruments or modifyOrder moves an order that was
\* already stored to EXECUTED.
C25_ExecutesOnlyInSweep ==
  [][(PlaceOrder \/ CancelOrder \/ UpdatePrice \/ GetAllInstruments
        \/ ModifyOrderCancel \/ ModifyOrderPlace)
     => \A k \in DOMAIN orders :
          orders'[k].status = "EXECUTED" => orders[k].status = "EXECUTED"
    ]_vars

\* C26: NEW is transient: when no request is being handled, no stored order
\* has status NEW.
C26_NewIsTransient ==
  pc = "idle" => \A k \in DOMAIN orders : orders[k].status # "NEW"

\* C27: modifyOrder on the caller's own PLACED order leaves the original
\* order CANCELLED and creates a distinct order that carries the modified
\* price and quantity and is PLACED or EXECUTED; a modifyOrder that is
\* refused changes no order.
C27_ModifyOrder ==
  /\ [][(pc = "modify" /\ pc' = "idle") =>
          /\ orders'[req.id].status = "CANCELLED"
          /\ Len(orders') = Len(orders) + 1
          /\ orders'[Len(orders')].id # req.id
          /\ orders'[Len(orders')].price = req.price
          /\ orders'[Len(orders')].quantity = req.quantity
          /\ orders'[Len(orders')].status \in {"PLACED", "EXECUTED"}]_vars
  /\ [](\A orderId \in OrderIds, userId \in Users :
          modifyOrderError(orders, orderId, userId) # "" =>
            \/ orderId \notin DOMAIN orders
            \/ orders[orderId].userId # userId
            \/ orders[orderId].status # "PLACED")

\* C28: order ids are unique: no two stored orders have the same id, and
\* every stored order is stored under its own id.
C28_UniqueOrderIds ==
  /\ \A j, k \in DOMAIN orders : j # k => orders[j].id # orders[k].id
  /\ \A k \in DOMAIN orders : orders[k].id = k

\* traded BUY quantity minus traded SELL quantity of user u on symbol s, over
\* the trades from position i on
RECURSIVE NetTraded(_, _, _, _)
NetTraded(trds, i, u, s) ==
  IF i > Len(trds) THEN 0
  ELSE (IF trds[i].userId = u /\ trds[i].symbol = s
        THEN IF trds[i].orderType = "BUY" THEN trds[i].quantity
             ELSE 0 - trds[i].quantity
        ELSE 0) + NetTraded(trds, i + 1, u, s)

\* C29: the ledger and the trade log agree: for every user and symbol the
\* holding quantity (0 without a holding) equals the quantity of the user's
\* BUY trades on the symbol minus that of their SELL trades on it.
C29_LedgerMatchesTrades ==
  \A u \in Users, s \in Symbols :
    HoldingOf(portfolio, u, s).quantity = NetTraded(trades, 1, u, s)

\* call p of processPendingOrders is at the await of its loop and the next
\* order of its snapshot is the one stored under k
NextInSweep(p, k) ==
  /\ sweep[p].pc = "loop"
  /\ sweep[p].i <= Len(sweep[p].pendingOrders)
  /\ sweep[p].pendingOrders[sweep[p].i] = k

C30_CancelledBeforeReached ==
  \E k \in DOMAIN orders, p \in Sweepers :
    /\ orders[k].status = "CANCELLED"
    /\ NextInSweep(p, k)
    /\ canExecute(orders[k], price[orders[k].symbol])

====
